---- MODULE Spec2Model ----
(***************************************************************************)
(* A model of fff.nvim's content search: the pattern translator            *)
(* (fuzzy_query_to_regex, escape_regex), the concurrent line searcher      *)
(* (grep_search: a parallel walk whose workers share one Mutex<Vec>), the  *)
(* orchestrator (fuzzy_grep_search) and the fuzzy re-ranker                *)
(* (match_and_score_grep_items, get_file_type_bonus).                      *)
(*                                                                         *)
(* A string is a sequence of characters; a character is a one-token TLA+   *)
(* string.  Characters outside ASCII are written by code point ("U+00E9")  *)
(* and carry their UTF-8 width, because str::len counts bytes while        *)
(* str::chars counts characters.                                           *)
(***************************************************************************)
EXTENDS Integers, Sequences, FiniteSets, TLC

VARIABLES
    pc,             \* where the caller is: "idle" (searcher constructed), "walk",
                    \* "grepped" (grep_search returned inside fuzzy_grep_search), "done";
                    \* "input" / "applied" in the specifications of the pure functions
    tree,           \* the file tree under base_path: entry index -> entry
    op,             \* the public method called: "grep_search" or "fuzzy_grep_search"
    grep_pattern,   \* the pattern argument (grep_search: pattern)
    fuzzy_query,    \* fuzzy_grep_search's fuzzy_query
    max_results,    \* the max_results argument of the call
    max_threads,    \* the max_threads argument of the call
    oracle,         \* {} until the fuzzy engine is first called, then {o}: the
                    \* member of the family of engine behaviours it showed
    limit,          \* grep_search's own max_results (doubled by fuzzy_grep_search)
    matcher,        \* the compiled pattern: a sequence of tokens
    pending,        \* entries the walk has not handed to a worker yet
    quit,           \* a visitor returned WalkState::Quit
    wpc,            \* worker -> position in the visitor closure
    wentry,         \* worker -> the entry it is visiting
    file_results,   \* worker -> its local file_results
    search_ok,      \* worker -> search_result.is_ok()
    lock,           \* holder of the results mutex, 0 when free
    results,        \* the Vec behind Arc<Mutex<..>>
    grep_ret,       \* what grep_search returned (final_results)
    ret,            \* what the public method returned
    visited,        \* single worker: the entries handed out so far, in order
    run,            \* 1, or 2 once the same call has been repeated (SpecTwice)
    prev,           \* the set of lines the first run returned (SpecTwice)
    dir_order,      \* the order the first run's single worker was handed the
                    \* entries in (SpecTwice)
    arg,            \* input of the pure function under test (SpecRegex, SpecTypos)
    out             \* its result

walkvars == <<pending, quit, wpc, wentry, file_results, search_ok, lock, results, visited>>
inputvars == <<op, grep_pattern, fuzzy_query, max_results, max_threads, oracle>>
callvars == <<inputvars, limit, matcher>>
vars == <<pc, tree, callvars, walkvars, grep_ret, ret, run, prev, dir_order, arg, out>>

----------------------------------------------------------------------------
(* Bounds of the model *)

\* entries (files, directories, walk errors) under the root directory
NumEntries == 2
\* largest max_results argument
MaxResults == 2
\* largest max_threads argument
MaxThreads == 2
\* members of the family of fuzzy-engine behaviours
NumOracles == 2
\* longest query handed to the translator in SpecRegex
MaxQueryLen == 4
\* longest of the small query lengths of SpecTypos
MaxProbeLen == 28

Max(a, b) == IF a >= b THEN a ELSE b
Min(a, b) == IF a <= b THEN a ELSE b

\* Iterator::take / Vec::truncate
take_n(s, n) == SubSeq(s, 1, Min(Len(s), n))

----------------------------------------------------------------------------
(* Strings *)

\* UTF-8 width of a character (what str::len adds up)
ByteLen(ch) ==
    CASE ch = "U+00E9" -> 2
      [] ch = "U+20AC" -> 3
      [] OTHER -> 1

RECURSIVE str_len(_)
str_len(s) == IF s = <<>> THEN 0 ELSE ByteLen(Head(s)) + str_len(Tail(s))

UpperChars == <<"A", "B", "C", "D", "E", "F", "G", "H", "I", "J", "K", "L", "M",
                "N", "O", "P", "Q", "R", "S", "T", "U", "V", "W", "X", "Y", "Z">>
LowerChars == <<"a", "b", "c", "d", "e", "f", "g", "h", "i", "j", "k", "l", "m",
                "n", "o", "p", "q", "r", "s", "t", "u", "v", "w", "x", "y", "z">>

char_to_lower(ch) ==
    IF \E i \in 1..Len(UpperChars) : UpperChars[i] = ch
    THEN LowerChars[CHOOSE i \in 1..Len(UpperChars) : UpperChars[i] = ch]
    ELSE ch

to_lowercase(s) == [i \in 1..Len(s) |-> char_to_lower(s[i])]

----------------------------------------------------------------------------
(* Pattern translator *)

\* the characters escape_regex escapes
MetaChars == {"\\", ".", "+", "*", "?", "(", ")", "|", "[", "]", "{", "}", "^", "$"}

\* a mutant of escape_char: '$' is missing from the match arm
escape_char_no_dollar(ch) ==
    IF ch \in (MetaChars \ {"$"}) THEN <<"\\", ch>> ELSE <<ch>>

\* one iteration of escape_regex's loop
escape_char(ch) ==
    IF ch \in MetaChars THEN <<"\\", ch>> ELSE <<ch>>

RECURSIVE escape_regex(_)
escape_regex(s) ==
    IF s = <<>> THEN <<>> ELSE escape_char(Head(s)) \o escape_regex(Tail(s))

\* a mutant of translate_char: the last character is treated as interior
translate_char_last_wild(chars, i) ==
    IF i = 1
    THEN escape_regex(<<chars[i]>>)
    ELSE <<"(">> \o escape_regex(<<chars[i]>>) \o <<"|", ".", ")">>

\* the body of the loop over chars.iter().enumerate(); i is 1-based here
translate_char(chars, i) ==
    IF i = 1 \/ i = Len(chars)
    THEN escape_regex(<<chars[i]>>)
    ELSE <<"(">> \o escape_regex(<<chars[i]>>) \o <<"|", ".", ")">>

RECURSIVE translate_from(_, _)
translate_from(chars, i) ==
    IF i > Len(chars) THEN <<>>
    ELSE translate_char(chars, i) \o translate_from(chars, i + 1)

fuzzy_query_to_regex(query) ==
    IF str_len(query) <= 2
    THEN escape_regex(query)
    ELSE translate_from(query, 1)

----------------------------------------------------------------------------
(* The regex engine (grep_regex), for the patterns the model draws:        *)
(* literals, escaped metacharacters, '.', and groups (x|y) of two such     *)
(* atoms.  A compiled pattern is a sequence of tokens, one per character   *)
(* it consumes; a token accepts any character, or the listed ones.         *)

Tok(anyc, lits) == [any |-> anyc, lits |-> lits]
BadAtom == [ok |-> FALSE, tok |-> Tok(FALSE, {}), rest |-> <<>>]

\* one atom at the head of p: a literal, an escaped metacharacter or '.'
regex_atom(p) ==
    IF p = <<>> THEN BadAtom
    ELSE IF p[1] = "\\"
    THEN IF Len(p) >= 2 /\ p[2] \in MetaChars
         THEN [ok |-> TRUE, tok |-> Tok(FALSE, {p[2]}), rest |-> SubSeq(p, 3, Len(p))]
         ELSE BadAtom
    ELSE IF p[1] = "."
    THEN [ok |-> TRUE, tok |-> Tok(TRUE, {}), rest |-> Tail(p)]
    ELSE IF p[1] \in MetaChars
    THEN BadAtom
    ELSE [ok |-> TRUE, tok |-> Tok(FALSE, {p[1]}), rest |-> Tail(p)]

\* one atom or one group (x|y) at the head of p
regex_item(p) ==
    IF p # <<>> /\ p[1] = "("
    THEN LET a == regex_atom(Tail(p)) IN
         IF a.ok /\ a.rest # <<>> /\ a.rest[1] = "|"
         THEN LET b == regex_atom(Tail(a.rest)) IN
              IF b.ok /\ b.rest # <<>> /\ b.rest[1] = ")"
              THEN [ok |-> TRUE,
                    tok |-> Tok(a.tok.any \/ b.tok.any, a.tok.lits \cup b.tok.lits),
                    rest |-> Tail(b.rest)]
              ELSE BadAtom
         ELSE BadAtom
    ELSE regex_atom(p)

\* RegexMatcherBuilder::build: the tokens, or ok = FALSE for a pattern that
\* does not compile
RECURSIVE regex_build(_)
regex_build(p) ==
    IF p = <<>> THEN [ok |-> TRUE, toks |-> <<>>]
    ELSE LET it == regex_item(p) IN
         IF ~it.ok THEN [ok |-> FALSE, toks |-> <<>>]
         ELSE LET r == regex_build(it.rest) IN
              [ok |-> r.ok, toks |-> IF r.ok THEN <<it.tok>> \o r.toks ELSE <<>>]

\* case_insensitive(true)
tok_accepts(t, ch) ==
    t.any \/ \E l \in t.lits : char_to_lower(l) = char_to_lower(ch)

\* an unanchored search of one line
is_match(toks, line) ==
    \E o \in 0..(Len(line) - Len(toks)) :
        \A i \in 1..Len(toks) : tok_accepts(toks[i], line[o + i])

----------------------------------------------------------------------------
(* The file tree: what WalkBuilder yields under base_path.  An entry is a  *)
(* directory, a walk error (Err(_) handed to the visitor) or a file; a     *)
(* file has its lines and err_at, the line at which its scan fails         *)
(* (0: the scan succeeds; 1: the file cannot be read at all).              *)

DirEntry(path) == [kind |-> "dir", relative_path |-> path, lines |-> <<>>, err_at |-> 0]
ErrEntry(path) == [kind |-> "err", relative_path |-> path, lines |-> <<>>, err_at |-> 0]
FileEntry(path, lines, e) ==
    [kind |-> "file", relative_path |-> path, lines |-> lines, err_at |-> e]

PathNames == << <<"a", ".", "r", "s">>,
                <<"b", ".", "t", "o", "m", "l">>,
                <<"t", "e", "s", "t", ".", "m", "d">>,
                <<"R", "E", "A", "D", "M", "E">> >>

RECURSIVE PathOf(_)
PathOf(i) ==
    IF i <= Len(PathNames) THEN PathNames[i]
    ELSE <<"d", "/">> \o PathOf(i - Len(PathNames))

LineHit  == <<"x", "A", "z", "c">>
LineHalf == <<"c", "a">>
LineMiss == <<"b">>

Shapes == <<"err", "none", "one", "two", "bad">>

EntryOfShape(sh, i) ==
    CASE sh = "err"  -> ErrEntry(PathOf(i))
      [] sh = "one"  -> FileEntry(PathOf(i), <<LineHit>>, 0)
      [] sh = "two"  -> FileEntry(PathOf(i), <<LineHit, LineMiss, LineHalf>>, 0)
      [] sh = "none" -> FileEntry(PathOf(i), <<LineMiss>>, 0)
      [] sh = "bad"  -> FileEntry(PathOf(i), <<LineHit, LineHit>>, 2)

\* entry 0 is the root directory itself, which the walk yields like any other;
\* the walk hands out entries in any order, so the trees are taken up to the
\* order of their entries
Trees ==
    {[i \in 0..NumEntries |->
        IF i = 0 THEN DirEntry(<<>>) ELSE EntryOfShape(Shapes[f[i]], i)] :
        f \in {g \in [1..NumEntries -> 1..Len(Shapes)] :
                    \A i \in 1..(NumEntries - 1) : g[i] <= g[i + 1]}}

\* pathdiff::diff_paths(path, base_path) undone: the absolute path
AbsPath(rel) == <<"/">> \o rel

\* a mutant of GrepItem: column is a position inside the line
GrepItem_with_column(e, lnum) ==
    [path |-> AbsPath(e.relative_path),
     relative_path |-> e.relative_path,
     line_number |-> lnum,
     line_content |-> e.lines[lnum],
     column |-> 10 + Len(e.lines[lnum])]

\* the GrepItem pushed by the UTF8 sink for line lnum of entry e
GrepItem(e, lnum) ==
    [path |-> AbsPath(e.relative_path),
     relative_path |-> e.relative_path,
     line_number |-> lnum,
     line_content |-> e.lines[lnum],
     column |-> 0]

\* the lines of e the sink is called for, in file order: the matching lines
\* before the line at which the scan fails
RECURSIVE sink_calls(_, _, _)
sink_calls(toks, e, lnum) ==
    IF lnum > Len(e.lines) \/ (e.err_at # 0 /\ lnum >= e.err_at) THEN <<>>
    ELSE (IF is_match(toks, e.lines[lnum]) THEN <<GrepItem(e, lnum)>> ELSE <<>>)
         \o sink_calls(toks, e, lnum + 1)

\* searcher.search_path: [ok, file_results]
search_path(toks, e) ==
    [ok |-> e.err_at = 0, file_results |-> sink_calls(toks, e, 1)]

----------------------------------------------------------------------------
(* grep_search *)

NoRet == [kind |-> "none"]

\* a mutant of limit_reached: > for >=
limit_reached_strict(len, lim) == len > lim

\* a mutant of limit_reached: the walk quits one match early
limit_reached_early(len, lim) == len + 1 >= lim

\* a mutant of limit_reached: the visitor never quits
limit_reached_never(len, lim) == FALSE

\* current_results.len() >= *max_results
limit_reached(len, lim) == len >= lim

\* a mutant of should_append: search_result.is_ok() is not tested
should_append_despite_error(ok, fr) == fr # <<>>

\* search_result.is_ok() && !file_results.is_empty()
should_append(ok, fr) == ok /\ fr # <<>>

\* a mutant of final_results: the final take() is missing
final_results_untruncated(rs, lim) == rs

\* results_vec.into_iter().take(*max_results).collect()
final_results(rs, lim) == take_n(rs, lim)

\* a mutant of doubled_budget: a larger surplus pool
doubled_budget_tripled(m) == m * 3

\* max_results * 2
doubled_budget(m) == m * 2

\* .threads(max_threads.max(1))
Workers == 1..Max(max_threads, 1)

\* entering grep_search from the public method o: the matcher is built, and
\* the walk starts with an empty Arc<Mutex<Vec>>
StartGrep(o, p, m, t) ==
    LET built == regex_build(IF o = "fuzzy_grep_search" THEN fuzzy_query_to_regex(p) ELSE p)
        ws == 1..Max(t, 1)
    IN  /\ limit' = IF o = "fuzzy_grep_search" THEN doubled_budget(m) ELSE m
        /\ matcher' = built.toks
        /\ pending' = IF built.ok THEN DOMAIN tree ELSE {}
        /\ quit' = FALSE
        /\ wpc' = [w \in ws |-> "idle"]
        /\ wentry' = [w \in ws |-> 0]
        /\ file_results' = [w \in ws |-> <<>>]
        /\ search_ok' = [w \in ws |-> TRUE]
        /\ lock' = 0
        /\ results' = <<>>
        /\ visited' = <<>>
        /\ grep_ret' = <<>>
        /\ IF built.ok
           THEN pc' = "walk" /\ ret' = NoRet
           ELSE pc' = "done" /\ ret' = [kind |-> "GrepError"]

\* the entries the walk may hand out next.  Several workers race for the
\* entries, so any pending one; a single worker is handed them in the order
\* the directories list them, which is the same in a second run on the
\* unchanged tree
NextEntries ==
    IF Cardinality(Workers) = 1 /\ Len(visited) < Len(dir_order)
    THEN {dir_order[Len(visited) + 1]} \cap pending
    ELSE pending

\* the walk hands an entry to an idle worker (no more once a visitor quit),
\* and the visitor takes the lock for its limit check.  The workers run the
\* same closure, so which idle worker gets the entry makes no difference: it
\* is the lowest one
Visit(w) ==
    /\ pc = "walk" /\ wpc[w] = "idle" /\ ~quit /\ lock = 0
    /\ \A v \in Workers : v < w => wpc[v] # "idle"
    /\ \E e \in NextEntries :
        /\ pending' = pending \ {e}
        /\ wentry' = [wentry EXCEPT ![w] = e]
        /\ visited' = IF Cardinality(Workers) = 1 THEN visited \o <<e>> ELSE visited
    /\ lock' = w
    /\ wpc' = [wpc EXCEPT ![w] = "check"]
    /\ UNCHANGED <<pc, tree, callvars, quit, file_results, search_ok, results,
                   grep_ret, ret, run, prev, dir_order, arg, out>>

\* a mutant of guard_dropped: the guard of the limit check outlives its block
guard_kept(w) == w

\* the block around the limit check ends: current_results is dropped and the
\* mutex is free again
guard_dropped(w) == 0

\* the limit check and the drop of its guard; then, with the lock released,
\* the entry match, the directory test and the scan of the file into the local
\* file_results.  The scan reads nothing the other workers write, so it is
\* taken in the same step
CheckAndScan(w) ==
    /\ pc = "walk" /\ wpc[w] = "check" /\ lock = w
    /\ lock' = guard_dropped(w)
    /\ IF limit_reached(Len(results), limit)
       THEN /\ quit' = TRUE
            /\ wpc' = [wpc EXCEPT ![w] = "idle"]
            /\ UNCHANGED <<file_results, search_ok>>
       ELSE /\ quit' = quit
            /\ IF tree[wentry[w]].kind = "file"
               THEN LET r == search_path(matcher, tree[wentry[w]]) IN
                    /\ file_results' = [file_results EXCEPT ![w] = r.file_results]
                    /\ search_ok' = [search_ok EXCEPT ![w] = r.ok]
                    /\ wpc' = [wpc EXCEPT ![w] =
                                 IF should_append(r.ok, r.file_results)
                                 THEN "scanned" ELSE "idle"]
               ELSE /\ wpc' = [wpc EXCEPT ![w] = "idle"]
                    /\ UNCHANGED <<file_results, search_ok>>
    /\ UNCHANGED <<pc, tree, callvars, visited, pending, wentry, results,
                   grep_ret, ret, run, prev, dir_order, arg, out>>

\* a mutant of extend: the batch is pushed around the lines already there
extend_interleaved(rs, batch) ==
    IF rs = <<>> \/ Len(batch) < 2 THEN rs \o batch
    ELSE <<Head(batch)>> \o rs \o Tail(batch)

\* results.extend(file_results)
extend(rs, batch) == rs \o batch

\* results.lock() of the append
LockForAppend(w) ==
    /\ pc = "walk" /\ wpc[w] = "scanned" /\ lock = 0
    /\ lock' = w
    /\ wpc' = [wpc EXCEPT ![w] = "append"]
    /\ UNCHANGED <<pc, tree, callvars, visited, pending, quit, wentry, file_results,
                   search_ok, results, grep_ret, ret, run, prev, dir_order, arg, out>>

\* results.extend(file_results) and the drop of the guard
AppendBatch(w) ==
    /\ pc = "walk" /\ wpc[w] = "append" /\ lock = w
    /\ results' = extend(results, file_results[w])
    /\ lock' = 0
    /\ wpc' = [wpc EXCEPT ![w] = "idle"]
    /\ UNCHANGED <<pc, tree, callvars, visited, pending, quit, wentry, file_results,
                   search_ok, grep_ret, ret, run, prev, dir_order, arg, out>>

\* run() returns once every worker has stopped: nothing is left, or a
\* visitor quit; grep_search then truncates and returns
WalkFinished ==
    /\ pc = "walk"
    /\ \A w \in Workers : wpc[w] = "idle"
    /\ pending = {} \/ quit

ReturnGrep ==
    /\ WalkFinished
    /\ grep_ret' = final_results(results, limit)
    /\ IF op = "grep_search"
       THEN pc' = "done" /\ ret' = [kind |-> "Ok", items |-> final_results(results, limit)]
       ELSE pc' = "grepped" /\ ret' = ret
    /\ UNCHANGED <<tree, callvars, walkvars, run, prev, dir_order, arg, out>>

----------------------------------------------------------------------------
(* The fuzzy engine (neo_frizbee::match_list_parallel) is outside the      *)
(* repository.  All the code relies on is that it is a function of the     *)
(* query and the haystack that keeps some candidates, each once, with a    *)
(* u16 score and an exactness flag.  The model ranges over a small family  *)
(* of such functions, indexed by o.                                        *)

fuzzy_key(o, query, hay) == (Len(hay) + str_len(query) + o) % 4

match_list_parallel(query, haystack, o) ==
    {[index |-> i - 1,
      score |-> 7 * fuzzy_key(o, query, haystack[i]),
      exact |-> fuzzy_key(o, query, haystack[i]) = 3] :
        i \in {j \in 1..Len(haystack) : fuzzy_key(o, query, haystack[j]) # 0}}

----------------------------------------------------------------------------
(* match_and_score_grep_items *)

ends_with(s, suf) ==
    Len(s) >= Len(suf) /\ SubSeq(s, Len(s) - Len(suf) + 1, Len(s)) = suf

contains(s, sub) ==
    \E o \in 0..(Len(s) - Len(sub)) : SubSeq(s, o + 1, o + Len(sub)) = sub

SourceExts == { <<".", "r", "s">>, <<".", "t", "s">>, <<".", "t", "s", "x">>,
                <<".", "j", "s">>, <<".", "j", "s", "x">>, <<".", "p", "y">>,
                <<".", "g", "o">>, <<".", "j", "a", "v", "a">>, <<".", "c">>,
                <<".", "c", "p", "p">>, <<".", "h">> }
ConfigExts == { <<".", "t", "o", "m", "l">>, <<".", "j", "s", "o", "n">>,
                <<".", "y", "a", "m", "l">>, <<".", "y", "m", "l">> }

\* a mutant of get_file_type_bonus: the test/spec rule comes first
get_file_type_bonus_test_first(path) ==
    IF contains(path, <<"t", "e", "s", "t">>) \/ contains(path, <<"s", "p", "e", "c">>)
    THEN 2
    ELSE IF \E x \in SourceExts : ends_with(path, x) THEN 5
    ELSE IF \E x \in ConfigExts : ends_with(path, x) THEN 1
    ELSE 0

get_file_type_bonus(path) ==
    IF \E x \in SourceExts : ends_with(path, x) THEN 5
    ELSE IF contains(path, <<"t", "e", "s", "t">>) \/ contains(path, <<"s", "p", "e", "c">>)
    THEN 2
    ELSE IF \E x \in ConfigExts : ends_with(path, x) THEN 1
    ELSE 0

I32Max == 2147483647
I32Min == (-I32Max) - 1

\* i32::saturating_add
saturating_add(a, b) ==
    IF a + b > I32Max THEN I32Max ELSE IF a + b < I32Min THEN I32Min ELSE a + b

\* Score::default()
ScoreDefault ==
    [total |-> 0, base_score |-> 0, filename_bonus |-> 0, special_filename_bonus |-> 0,
     frecency_boost |-> 0, distance_penalty |-> 0, current_file_penalty |-> 0,
     exact_match |-> FALSE, match_type |-> ""]

\* a mutant of line_bonus: the comparison with base_score is missing
line_bonus_signed(line_score, base_score) == (line_score - base_score) \div 4

\* the bonus of a candidate whose line-only score is known (.map(|&score| ..))
line_bonus(line_score, base_score) ==
    IF line_score > base_score THEN (line_score - base_score) \div 4 ELSE 0

position_bonus(column) ==
    IF column < 10 THEN 5 ELSE IF column < 30 THEN 2 ELSE 0

\* the closure mapped over the combined-view matches: (item, score, total)
score_match(m, items, line_matches) ==
    LET item == items[m.index + 1]
        base_score == m.score
        line_match_bonus ==
            IF \E lm \in line_matches : lm.index = m.index
            THEN line_bonus((CHOOSE lm \in line_matches : lm.index = m.index).score,
                            base_score)
            ELSE 0
        pos == position_bonus(item.column)
        file_type_bonus == get_file_type_bonus(item.relative_path)
        total == saturating_add(saturating_add(saturating_add(base_score,
                     line_match_bonus), pos), file_type_bonus)
    IN  [item |-> item,
         total |-> total,
         score |-> [total |-> total, base_score |-> base_score,
                    filename_bonus |-> line_match_bonus,
                    special_filename_bonus |-> file_type_bonus,
                    frecency_boost |-> pos,
                    distance_penalty |-> 0, current_file_penalty |-> 0,
                    exact_match |-> m.exact, match_type |-> "grep"]]

\* a mutant of sorted_orders: the comparison is a.2.cmp(&b.2), ascending
RECURSIVE sorted_orders_ascending(_)
sorted_orders_ascending(S) ==
    IF S = {} THEN {<<>>}
    ELSE UNION {{<<x>> \o r : r \in sorted_orders_ascending(S \ {x})} :
                    x \in {y \in S : \A z \in S : y.total <= z.total}}

\* par_sort_unstable_by(|a, b| b.2.cmp(&a.2)): every order of S with the
\* totals non-increasing (equal totals in any order)
RECURSIVE sorted_orders(_)
sorted_orders(S) ==
    IF S = {} THEN {<<>>}
    ELSE UNION {{<<x>> \o r : r \in sorted_orders(S \ {x})} :
                    x \in {y \in S : \A z \in S : z.total <= y.total}}

\* a mutant of truncate: results.truncate is missing
truncate_nothing(rs, m) == rs

\* results.truncate(context.max_results)
truncate(rs, m) == take_n(rs, m)

\* format!("{} {}", relative_path.to_lowercase(), line_content.to_lowercase())
haystack(items) ==
    [i \in 1..Len(items) |->
        to_lowercase(items[i].relative_path) \o <<" ">>
            \o to_lowercase(items[i].line_content)]

\* item.line_content.to_lowercase()
line_haystack(items) == [i \in 1..Len(items) |-> to_lowercase(items[i].line_content)]

\* the combined-view matches
matches_of(items, query, o) == match_list_parallel(query, haystack(items), o)

\* the line-only matches (line_match_map)
line_matches_of(items, query, o) == match_list_parallel(query, line_haystack(items), o)

\* results before the sort: one (item, score, total) per combined-view match
scored_results(items, query, o) ==
    {score_match(m, items, line_matches_of(items, query, o)) :
        m \in matches_of(items, query, o)}

\* the outcomes of match_and_score_grep_items: (items, scores, total_matched),
\* one per order the unstable sort may leave
match_and_score_grep_items(items, context, o) ==
    IF items = <<>> THEN {[items |-> <<>>, scores |-> <<>>, total_matched |-> 0]}
    ELSE
    LET matches == matches_of(items, context.query, o)
        scored == scored_results(items, context.query, o)
    IN  {[items |-> [i \in 1..Len(truncate(rs, context.max_results)) |-> rs[i].item],
          scores |-> [i \in 1..Len(truncate(rs, context.max_results)) |-> rs[i].score],
          total_matched |-> Cardinality(matches)] : rs \in sorted_orders(scored)}

----------------------------------------------------------------------------
(* fuzzy_grep_search, after grep_search returned *)

U16Modulus == 65536

\* fuzzy_query.len() as u16
as_u16(n) == n % U16Modulus

clamp(x, lo, hi) == IF x < lo THEN lo ELSE IF x > hi THEN hi ELSE x

\* (fuzzy_query.len() as u16 / 4).clamp(2, 6)
max_typos_of(len) == clamp(as_u16(len) \div 4, 2, 6)

\* fuzzy_query.is_empty() || fuzzy_query.len() < 2
skips_ranking(fq) == fq = <<>> \/ str_len(fq) < 2

\* a mutant of short_count: .min(max_results) is missing
short_count_all(n, m) == n

\* grep_results.len().min(max_results)
short_count(n, m) == Min(n, m)

Envelope(items, scores, total_matched, total_grepped) ==
    [kind |-> "Ok", items |-> items, scores |-> scores,
     total_matched |-> total_matched, total_grepped |-> total_grepped]

ReturnFuzzy ==
    /\ pc = "grepped"
    /\ pc' = "done"
    /\ IF grep_ret = <<>>
       THEN ret' = Envelope(<<>>, <<>>, 0, 0) /\ oracle' = oracle
       ELSE IF skips_ranking(fuzzy_query)
       THEN LET count == short_count(Len(grep_ret), max_results) IN
            /\ ret' = Envelope(take_n(grep_ret, count),
                               [i \in 1..count |-> ScoreDefault], count, Len(grep_ret))
            /\ oracle' = oracle
       ELSE LET context == [query |-> fuzzy_query, max_results |-> max_results,
                            max_typos |-> max_typos_of(str_len(fuzzy_query)),
                            max_threads |-> max_threads]
            IN  \E o \in (IF oracle = {} THEN 0..(NumOracles - 1) ELSE oracle) :
                \E r \in match_and_score_grep_items(grep_ret, context, o) :
                    /\ oracle' = {o}
                    /\ ret' = Envelope(r.items, r.scores, r.total_matched, Len(grep_ret))
    /\ UNCHANGED <<tree, op, grep_pattern, fuzzy_query, max_results, max_threads,
                   limit, matcher, walkvars, grep_ret, run, prev, dir_order, arg, out>>

----------------------------------------------------------------------------
(* Spec: one call of grep_search or fuzzy_grep_search on a constructed     *)
(* searcher, over every tree of NumEntries entries                         *)

\* patterns handed to grep_search directly; the last does not compile
RawPatterns == { <<"a">>, <<"a", ".", "c">>, <<"(">> }
\* grep_pattern arguments of fuzzy_grep_search
FuzzyPatterns == { <<"a">>, <<"a", "b", "c">> }
\* fuzzy_query arguments: empty, one byte, and one character of two bytes
FuzzyQueries == { <<>>, <<"a">>, <<"U+00E9">> }
\* max_threads arguments
ThreadBudgets == {0, MaxThreads}

\* nothing has been called yet
NoCall ==
    /\ op = "" /\ grep_pattern = <<>> /\ fuzzy_query = <<>>
    /\ max_results = 0 /\ max_threads = 0 /\ oracle = {}
    /\ limit = 0 /\ matcher = <<>>
    /\ pending = {} /\ quit = FALSE
    /\ wpc = <<>> /\ wentry = <<>> /\ file_results = <<>> /\ search_ok = <<>>
    /\ lock = 0 /\ results = <<>>
    /\ grep_ret = <<>> /\ ret = NoRet
    /\ visited = <<>>
    /\ run = 1 /\ prev = {} /\ dir_order = <<>>

\* ContentSearcher::new succeeded on a base_path holding tree t
Constructed(t) ==
    /\ pc = "idle"
    /\ tree = t
    /\ NoCall
    /\ arg = <<>> /\ out = <<>>

Init == \E t \in Trees : Constructed(t)

CallGrepSearch ==
    /\ pc = "idle"
    /\ \E p \in RawPatterns, m \in 0..MaxResults, t \in ThreadBudgets :
        /\ op' = "grep_search"
        /\ grep_pattern' = p
        /\ fuzzy_query' = <<>>
        /\ max_results' = m
        /\ max_threads' = t
        /\ oracle' = {}
        /\ StartGrep("grep_search", p, m, t)
    /\ UNCHANGED <<tree, run, prev, dir_order, arg, out>>

CallFuzzyGrepSearch ==
    /\ pc = "idle"
    /\ \E p \in FuzzyPatterns, fq \in FuzzyQueries, m \in 0..MaxResults,
          t \in ThreadBudgets :
        /\ op' = "fuzzy_grep_search"
        /\ grep_pattern' = p
        /\ fuzzy_query' = fq
        /\ max_results' = m
        /\ max_threads' = t
        /\ oracle' = {}
        /\ StartGrep("fuzzy_grep_search", p, m, t)
    /\ UNCHANGED <<tree, run, prev, dir_order, arg, out>>

Walk ==
    \/ \E w \in Workers :
        \/ Visit(w)
        \/ CheckAndScan(w)
        \/ LockForAppend(w)
        \/ AppendBatch(w)
    \/ ReturnGrep
    \/ ReturnFuzzy

Next == CallGrepSearch \/ CallFuzzyGrepSearch \/ Walk

Spec == Init /\ [][Next]_vars

\* one step of the visitor run by worker w
WorkerStep(w) == Visit(w) \/ CheckAndScan(w) \/ LockForAppend(w) \/ AppendBatch(w)

\* the walk's workers are OS threads and the caller blocks in run(): a thread
\* that can take a step eventually takes it, and run() returns once they stopped
Fairness ==
    /\ \A w \in 1..Max(MaxThreads, 1) :
          WF_vars(pc = "walk" /\ w \in Workers /\ WorkerStep(w))
    /\ WF_vars(ReturnGrep)

SpecLive == Init /\ [][Next]_vars /\ Fairness

----------------------------------------------------------------------------
(* SpecTwice: the same call made a second time on the unchanged tree       *)

\* the lines a call returned
ReturnedLines(r) ==
    IF r.kind = "Ok" THEN {r.items[i] : i \in 1..Len(r.items)} ELSE {}

CallAgain ==
    /\ pc = "done" /\ run = 1
    /\ run' = 2
    /\ prev' = ReturnedLines(ret)
    /\ StartGrep(op, grep_pattern, max_results, max_threads)
    /\ dir_order' = visited
    /\ UNCHANGED <<tree, inputvars, arg, out>>

NextTwice == Next \/ CallAgain

SpecTwice == Init /\ [][NextTwice]_vars

----------------------------------------------------------------------------
(* SpecScenario: the spec's two-file scenario, fuzzy_grep_search called    *)
(* with grep_pattern = fuzzy_query                                         *)

LineFnFunctionOne ==
    <<"f", "n", " ", "f", "u", "n", "c", "t", "i", "o", "n", "_", "o", "n", "e",
      "(", ")", " ", "{", "}">>
LineFunctionTrue ==
    <<"f", "u", "n", "c", "t", "i", "o", "n", " ", "=", " ", "t", "r", "u", "e">>

ScenarioTree ==
    [i \in 0..2 |->
        CASE i = 0 -> DirEntry(<<>>)
          [] i = 1 -> FileEntry(<<"a", ".", "r", "s">>, <<LineFnFunctionOne>>, 0)
          [] i = 2 -> FileEntry(<<"b", ".", "t", "o", "m", "l">>, <<LineFunctionTrue>>, 0)]

QueryFunk == <<"f", "u", "n", "k">>
ScenarioQueries == {QueryFunk, <<"f", "u", "n", "c">>, <<"f", "n">>, <<"=">>}

InitScenario == Constructed(ScenarioTree)

CallScenario ==
    /\ pc = "idle"
    /\ \E q \in ScenarioQueries, m \in {0, 10}, t \in ThreadBudgets :
        /\ op' = "fuzzy_grep_search"
        /\ grep_pattern' = q
        /\ fuzzy_query' = q
        /\ max_results' = m
        /\ max_threads' = t
        /\ oracle' = {}
        /\ StartGrep("fuzzy_grep_search", q, m, t)
    /\ UNCHANGED <<tree, run, prev, dir_order, arg, out>>

NextScenario == CallScenario \/ Walk

SpecScenario == InitScenario /\ [][NextScenario]_vars

----------------------------------------------------------------------------
(* SpecRegex: fuzzy_query_to_regex applied to every query of at most       *)
(* MaxQueryLen characters over QueryAlphabet                               *)

QueryAlphabet == {"a", "$", "U+00E9", "U+20AC"}

Queries == UNION {[1..n -> QueryAlphabet] : n \in 0..MaxQueryLen}

InitRegex ==
    /\ pc = "input"
    /\ tree = <<>>
    /\ NoCall
    /\ arg \in Queries
    /\ out = <<>>

Translate ==
    /\ pc = "input"
    /\ pc' = "applied"
    /\ out' = fuzzy_query_to_regex(arg)
    /\ UNCHANGED <<tree, callvars, walkvars, grep_ret, ret, run, prev, dir_order, arg>>

NextRegex == Translate

SpecRegex == InitRegex /\ [][NextRegex]_vars

----------------------------------------------------------------------------
(* SpecTypos: max_typos for pairs of query lengths a <= b, small ones and  *)
(* ones around the first length that does not fit in 16 bits               *)

ProbeLens ==
    (2..MaxProbeLen) \cup ((U16Modulus - 4)..(U16Modulus + MaxProbeLen))

InitTypos ==
    /\ pc = "input"
    /\ tree = <<>>
    /\ NoCall
    /\ arg \in {<<a, b>> : a \in ProbeLens, b \in ProbeLens}
    /\ arg[1] <= arg[2]
    /\ out = <<>>

ComputeTypos ==
    /\ pc = "input"
    /\ pc' = "applied"
    /\ out' = <<max_typos_of(arg[1]), max_typos_of(arg[2])>>
    /\ UNCHANGED <<tree, callvars, walkvars, grep_ret, ret, run, prev, dir_order, arg>>

NextTypos == ComputeTypos

SpecTypos == InitTypos /\ [][NextTypos]_vars

----------------------------------------------------------------------------
(* SpecBonus: get_file_type_bonus applied to every path made of a          *)
(* directory, a stem and an extension (listed ones and others)             *)

BonusDirs ==
    { <<>>, <<"s", "r", "c", "/">>, <<"t", "e", "s", "t", "s", "/">>, <<"s", "p", "e", "c", "/">> }
BonusStems ==
    { <<"m", "a", "i", "n">>, <<"l", "a", "t", "e", "s", "t">>, <<"T", "e", "s", "t">>, <<"a", ".", "r", "s">>, <<"i", "n", "s", "p", "e", "c", "t">> }
\* extensions outside both lists: none, unknown, upper case
OtherExts ==
    { <<>>, <<".", "m", "d">>, <<".", "R", "S">>, <<".", "l", "o", "c", "k">> }

BonusPaths ==
    {d \o st \o x : d \in BonusDirs, st \in BonusStems,
                    x \in SourceExts \cup ConfigExts \cup OtherExts}

InitBonus ==
    /\ pc = "input"
    /\ tree = <<>>
    /\ NoCall
    /\ arg \in BonusPaths
    /\ out = <<>>

ComputeBonus ==
    /\ pc = "input"
    /\ pc' = "applied"
    /\ out' = <<get_file_type_bonus(arg)>>
    /\ UNCHANGED <<tree, callvars, walkvars, grep_ret, ret, run, prev, dir_order, arg>>

NextBonus == ComputeBonus

SpecBonus == InitBonus /\ [][NextBonus]_vars

----------------------------------------------------------------------------
(* Properties *)

\* the number of lines of entry e the compiled pattern matches
MatchingLines(e) == Cardinality({i \in 1..Len(e.lines) : is_match(matcher, e.lines[i])})

\* the largest number of matching lines a single file of the tree holds
MaxFileMatches ==
    LET counts == {MatchingLines(tree[i]) : i \in DOMAIN tree}
    IN  CHOOSE c \in counts : \A d \in counts : d <= c

\* the matching lines of the files whose scan succeeds, over entries 0..i
RECURSIVE ScannableUpTo(_)
ScannableUpTo(i) ==
    IF i < 0 THEN 0
    ELSE (IF tree[i].kind = "file" /\ tree[i].err_at = 0 THEN MatchingLines(tree[i]) ELSE 0)
         + ScannableUpTo(i - 1)

TotalScannable == ScannableUpTo(Cardinality(DOMAIN tree) - 1)

Returned == pc = "done" /\ ret.kind = "Ok"
FuzzyReturned == Returned /\ op = "fuzzy_grep_search"

\* C1: whatever the tree, the pattern, max_results, the thread budget and the
\* interleaving of the workers, the sequence grep_search returns (to its caller,
\* or to fuzzy_grep_search) is no longer than the max_results it was given.
C1_GrepSearchWithinMax ==
    /\ pc \in {"grepped", "done"} => Len(grep_ret) <= limit
    /\ Returned /\ op = "grep_search" => Len(ret.items) <= max_results

\* C1's case: two workers overshot the cap and the final take() cut the list
C1_Witness ==
    /\ Returned /\ op = "grep_search"
    /\ Cardinality(Workers) >= 2
    /\ max_results > 0
    /\ Len(results) > max_results
    /\ Len(ret.items) = max_results

\* C2: in every envelope fuzzy_grep_search returns, items and scores have the
\* same length, and that length is at most min(max_results, total_matched).
C2_EnvelopeLengths ==
    FuzzyReturned =>
        /\ Len(ret.items) = Len(ret.scores)
        /\ Len(ret.items) <= max_results
        /\ Len(ret.items) <= ret.total_matched

\* C2's case: the re-ranked path, with more survivors than max_results
C2_Witness ==
    /\ FuzzyReturned
    /\ ~skips_ranking(fuzzy_query)
    /\ ret.total_matched > max_results
    /\ max_results > 0
    /\ Len(ret.items) = max_results

\* C3: in every envelope, total_matched <= total_grepped, and total_grepped is
\* the number of raw lines grep_search returned, at most 2 * max_results.
C3_EnvelopeCounts ==
    FuzzyReturned =>
        /\ ret.total_matched <= ret.total_grepped
        /\ ret.total_grepped = Len(grep_ret)
        /\ ret.total_grepped <= 2 * max_results

\* C3's case: the walk gathered more than the doubled budget, the searcher
\* returned exactly 2 * max_results lines and the fuzzy filter dropped some
C3_Witness ==
    /\ FuzzyReturned
    /\ Len(results) > 2 * max_results
    /\ ret.total_grepped = 2 * max_results
    /\ ret.total_matched < ret.total_grepped
    /\ ret.total_matched > 0

\* the call took the re-ranked path of fuzzy_grep_search and returned
RankedReturned == FuzzyReturned /\ grep_ret # <<>> /\ ~skips_ranking(fuzzy_query)

\* the behaviour of the fuzzy engine in this call
TheOracle == CHOOSE o \in oracle : TRUE

\* the candidates that survived the combined-view match, with their scores
Survivors == scored_results(grep_ret, fuzzy_query, TheOracle)

\* the (item, score, total) triples the envelope holds
ReturnedTriples ==
    {[item |-> ret.items[i], total |-> ret.scores[i].total, score |-> ret.scores[i]] :
        i \in 1..Len(ret.items)}

\* C11: match_and_score_grep_items returns the top-K by total: the totals are
\* non-increasing, the length is min(max_results, total_matched), every
\* survivor left out has a total no greater than any returned one, scores[i]
\* is the score computed for items[i], and total_matched counts the survivors
\* before truncation.
C11_TopKByTotal ==
    RankedReturned =>
        /\ \A i \in 1..(Len(ret.scores) - 1) :
              ret.scores[i].total >= ret.scores[i + 1].total
        /\ Len(ret.items) = Min(max_results, ret.total_matched)
        /\ Len(ret.scores) = Len(ret.items)
        /\ ret.total_matched = Cardinality(Survivors)
        /\ ReturnedTriples \subseteq Survivors
        /\ Cardinality(ReturnedTriples) = Len(ret.items)
        /\ \A s \in Survivors \ ReturnedTriples :
              \A i \in 1..Len(ret.scores) : s.total <= ret.scores[i].total

\* C11's case: more survivors than max_results, two returned with different
\* totals, and a survivor with a smaller total left out
C11_Witness ==
    /\ RankedReturned
    /\ Len(ret.items) = 2
    /\ ret.total_matched > 2
    /\ ret.scores[1].total > ret.scores[2].total
    /\ \E s \in Survivors \ ReturnedTriples : s.total < ret.scores[2].total

\* the pattern grep_search compiles in this call
CompiledPattern ==
    regex_build(IF op = "fuzzy_grep_search"
                THEN fuzzy_query_to_regex(grep_pattern) ELSE grep_pattern)

\* the entries whose scan fails: unreadable, or an error part-way through
FailingEntries == {i \in DOMAIN tree : tree[i].kind = "err" \/ tree[i].err_at # 0}

\* every matching line of every file whose scan succeeds
AllOkMatches ==
    UNION {{GrepItem(tree[i], l) :
                l \in {k \in 1..Len(tree[i].lines) : is_match(matcher, tree[i].lines[k])}} :
            i \in {j \in DOMAIN tree : tree[j].kind = "file" /\ tree[j].err_at = 0}}

\* grep_search has returned Ok (to its caller or to fuzzy_grep_search)
GrepReturned == pc \in {"grepped", "done"} /\ ret.kind # "GrepError"

\* C12: a file whose scan fails contributes no line to the shared list or to
\* what grep_search returns, not even the lines matched before the failure;
\* the call fails only when the pattern does not compile; and the other files
\* are unaffected: whenever their matching lines fit under the cap, all of
\* them are returned.
C12_FailedScanContributesNothing ==
    /\ \A k \in 1..Len(results) : \A i \in FailingEntries :
          results[k].relative_path # tree[i].relative_path
    /\ \A k \in 1..Len(grep_ret) : \A i \in FailingEntries :
          grep_ret[k].relative_path # tree[i].relative_path
    /\ pc = "done" /\ CompiledPattern.ok => ret.kind = "Ok"
    /\ GrepReturned /\ TotalScannable <= limit =>
          {grep_ret[k] : k \in 1..Len(grep_ret)} = AllOkMatches

\* C12's case: a file matched on its first line and then failed, next to an
\* unreadable or healthy entry, and the call returned the healthy file's lines
C12_Witness ==
    /\ Returned /\ op = "grep_search"
    /\ \E i \in FailingEntries, w \in Workers :
          /\ tree[i].err_at # 0
          /\ file_results[w] # <<>>
          /\ file_results[w][1].relative_path = tree[i].relative_path
    /\ ret.items # <<>>
    /\ {ret.items[k] : k \in 1..Len(ret.items)} = AllOkMatches

\* the lines of one file form one block of seq, in increasing line order
InFileBlocks(seq) ==
    \A i, j \in 1..Len(seq) :
        i < j /\ seq[i].relative_path = seq[j].relative_path =>
            /\ seq[i].line_number < seq[j].line_number
            /\ \A k \in i..j : seq[k].relative_path = seq[i].relative_path

\* C13: whatever the interleaving of the workers, the matches of one file sit
\* in the shared list, and in the sequence grep_search returns, as a single
\* contiguous block in strictly increasing line-number order.
C13_FileBlocksContiguous ==
    /\ InFileBlocks(results)
    /\ InFileBlocks(grep_ret)
    /\ Returned /\ op = "grep_search" => InFileBlocks(ret.items)

\* C13's case: two workers, the second file's block of two lines returned
\* ahead of the first file's line (the order of the blocks is not fixed)
C13_Witness ==
    /\ GrepReturned
    /\ Cardinality(Workers) >= 2
    /\ Len(grep_ret) >= 3
    /\ grep_ret[1].relative_path = PathOf(2)
    /\ grep_ret[2].relative_path = PathOf(2)
    /\ grep_ret[1].line_number < grep_ret[2].line_number
    /\ grep_ret[3].relative_path = PathOf(1)

\* C14: a worker gets a batch to append only out of a limit check that saw
\* fewer than max_results lines; a worker whose check sees max_results lines or
\* more scans nothing, appends nothing and signals the walk to stop; the
\* shared list grows only by the batch of a worker that passed its check.  With
\* max_results = 0 nothing is scanned and the list stays empty.
C14_AppendOnlyAfterCheck ==
    [][pc = "walk" =>
        /\ \A w \in DOMAIN wpc :
              /\ wpc[w] = "check" /\ wpc'[w] # "check" /\ Len(results) >= limit =>
                    /\ quit'
                    /\ wpc'[w] = "idle"
                    /\ file_results'[w] = file_results[w]
                    /\ results' = results
              /\ wpc[w] # "scanned" /\ wpc'[w] = "scanned" =>
                    wpc[w] = "check" /\ Len(results) < limit
              /\ wpc[w] # "append" /\ wpc'[w] = "append" => wpc[w] = "scanned"
        /\ results' # results =>
              \E w \in DOMAIN wpc :
                  /\ wpc[w] = "append"
                  /\ results' = results \o file_results[w]
        /\ limit = 0 =>
              /\ results' = <<>>
              /\ file_results' = file_results
              /\ \A w \in DOMAIN wpc : file_results[w] = <<>>
    ]_vars

\* C14's case: with entries still to visit, a check found the list at the cap
\* and told the walk to stop
C14_Witness ==
    /\ pc = "walk"
    /\ quit
    /\ limit > 0
    /\ Len(results) >= limit
    /\ pending # {}

\* who may hold the mutex: a worker at its limit check or at its one append,
\* and nobody once the walk is over
LockDiscipline ==
    /\ lock # 0 => pc = "walk" /\ lock \in Workers /\ wpc[lock] \in {"check", "append"}
    /\ \A w \in DOMAIN wpc : wpc[w] \in {"check", "append"} => lock = w
    /\ pc # "walk" => lock = 0 /\ \A w \in DOMAIN wpc : wpc[w] = "idle"

\* C15: under fair scheduling of the workers grep_search returns, for every
\* tree and thread budget: the mutex is held only by a worker at its limit
\* check or at its one append, a scan never ends with its worker holding it,
\* while the walk runs some worker can step or the walk is over (no deadlock),
\* and once the call has returned nobody holds the mutex or is still running.
C15_GrepSearchReturns ==
    /\ []LockDiscipline
    /\ [][pc = "walk" =>
            \A w \in DOMAIN wpc : file_results'[w] # file_results[w] => lock' # w]_vars
    /\ [](pc = "walk" => WalkFinished \/ \E w \in Workers : ENABLED WorkerStep(w))
    /\ (pc = "walk") ~> (pc # "walk")

\* C15's case: two workers contended for the mutex, both appended, one told
\* the walk to stop with entries left, and the call returned with it free
C15_Witness ==
    /\ GrepReturned
    /\ Cardinality(Workers) >= 2
    /\ quit
    /\ pending # {}
    /\ Len(results) > limit
    /\ lock = 0

\* the claim's lists and tests, stated on their own
ClaimedSourceExts ==
    { <<".", "r", "s">>, <<".", "t", "s">>, <<".", "t", "s", "x">>, <<".", "j", "s">>,
      <<".", "j", "s", "x">>, <<".", "p", "y">>, <<".", "g", "o">>, <<".", "j", "a", "v", "a">>,
      <<".", "c">>, <<".", "c", "p", "p">>, <<".", "h">> }
ClaimedConfigExts ==
    { <<".", "t", "o", "m", "l">>, <<".", "j", "s", "o", "n">>, <<".", "y", "a", "m", "l">>, <<".", "y", "m", "l">> }

EndsIn(path, ext) == \E n \in 0..Len(path) : path = SubSeq(path, 1, n) \o ext

HasWord(path, word) ==
    \E i \in 1..Len(path) : \E j \in i..Len(path) : SubSeq(path, i, j) = word

IsTestPath(path) ==
    HasWord(path, <<"t", "e", "s", "t">>) \/ HasWord(path, <<"s", "p", "e", "c">>)

ClaimedBonus(path) ==
    IF \E x \in ClaimedSourceExts : EndsIn(path, x) THEN 5
    ELSE IF IsTestPath(path) THEN 2
    ELSE IF \E x \in ClaimedConfigExts : EndsIn(path, x) THEN 1
    ELSE 0

\* C16: get_file_type_bonus returns one of 5, 2, 1, 0 by the first matching
\* rule: 5 for a listed source extension, else 2 for a path containing "test"
\* or "spec" (case-sensitive), else 1 for .toml/.json/.yaml/.yml, else 0; so a
\* test file with a source extension gets 5 and a config file under a test
\* or spec path gets 2.
C16_FileTypeBonusFirstRule ==
    pc = "applied" =>
        /\ out = <<ClaimedBonus(arg)>>
        /\ out[1] \in {5, 2, 1, 0}
        /\ IsTestPath(arg) /\ (\E x \in ClaimedSourceExts : EndsIn(arg, x)) => out[1] = 5
        /\ IsTestPath(arg) /\ (\E x \in ClaimedConfigExts : EndsIn(arg, x)) => out[1] = 2

\* C16's case: a config file under a tests directory gets the test bonus
C16_Witness ==
    /\ pc = "applied"
    /\ arg = <<"t", "e", "s", "t", "s", "/", "m", "a", "i", "n", ".", "t", "o", "m", "l">>
    /\ out = <<2>>

\* position in grep_ret (from 0) of a candidate
IndexOf(item) == (CHOOSE k \in 1..Len(grep_ret) : grep_ret[k] = item) - 1

\* the indices that survived the combined-view run, and the line-only run
CombinedIndices == {m.index : m \in matches_of(grep_ret, fuzzy_query, TheOracle)}
LineIndices == {m.index : m \in line_matches_of(grep_ret, fuzzy_query, TheOracle)}

\* the line-only score of a candidate that survived the line-only run
LineScore(idx) ==
    (CHOOSE m \in line_matches_of(grep_ret, fuzzy_query, TheOracle) : m.index = idx).score

\* the bonus the claim gives a survivor of the combined view
ClaimedLineBonus(idx, base) ==
    IF idx \in LineIndices /\ LineScore(idx) > base
    THEN (LineScore(idx) - base) \div 4
    ELSE 0

\* C17: every survivor of the combined-view match gets the line-match bonus
\* (line_score - base_score) / 4, rounded down, when it also survived the
\* line-only run with a strictly greater score, and 0 otherwise; the bonus is
\* never negative; and a candidate that survived only the line-only run is
\* not returned.
C17_LineMatchBonus ==
    RankedReturned =>
        /\ \A s \in Survivors :
              /\ IndexOf(s.item) \in CombinedIndices
              /\ s.score.filename_bonus =
                    ClaimedLineBonus(IndexOf(s.item), s.score.base_score)
              /\ s.score.filename_bonus >= 0
        /\ \A i \in 1..Len(ret.items) :
              /\ IndexOf(ret.items[i]) \in CombinedIndices
              /\ ret.scores[i].filename_bonus =
                    ClaimedLineBonus(IndexOf(ret.items[i]), ret.scores[i].base_score)
              /\ ret.scores[i].filename_bonus >= 0

\* C17's case: one returned candidate with a better line-only score and a
\* positive bonus, one with a worse line-only score and no bonus, and a
\* candidate that survived the line-only run alone
C17_Witness ==
    /\ RankedReturned
    /\ \E i \in 1..Len(ret.items) : ret.scores[i].filename_bonus > 0
    /\ \E i \in 1..Len(ret.items) :
          /\ IndexOf(ret.items[i]) \in LineIndices
          /\ LineScore(IndexOf(ret.items[i])) < ret.scores[i].base_score
          /\ ret.scores[i].filename_bonus = 0
    /\ LineIndices \ CombinedIndices # {}

\* every line of seq has column 0
AllColumnZero(seq) == \A k \in 1..Len(seq) : seq[k].column = 0

\* C18: every line the searcher produces has column 0, so on the re-ranked
\* path every score has the position bonus 5 and no penalties, and its total
\* is base score + line-match bonus + 5 + file-type bonus.
C18_PositionBonusAlwaysFive ==
    /\ AllColumnZero(results)
    /\ AllColumnZero(grep_ret)
    /\ \A w \in DOMAIN file_results : AllColumnZero(file_results[w])
    /\ Returned => AllColumnZero(ret.items)
    /\ RankedReturned =>
          \A i \in 1..Len(ret.scores) :
              /\ ret.scores[i].frecency_boost = 5
              /\ ret.scores[i].distance_penalty = 0
              /\ ret.scores[i].current_file_penalty = 0
              /\ ret.scores[i].special_filename_bonus =
                    ClaimedBonus(ret.items[i].relative_path)
              /\ ret.scores[i].total =
                    ret.scores[i].base_score + ret.scores[i].filename_bonus + 5
                        + ret.scores[i].special_filename_bonus

\* C18's case: a ranked line of a config file with a line-match bonus, whose
\* total is base + bonus + 5 + 1
C18_Witness ==
    /\ RankedReturned
    /\ \E i \in 1..Len(ret.scores) :
          /\ ret.items[i].column = 0
          /\ ret.scores[i].filename_bonus > 0
          /\ ret.scores[i].special_filename_bonus = 1
          /\ ret.scores[i].total =
                ret.scores[i].base_score + ret.scores[i].filename_bonus + 6

\* C4, as claimed: during the walk the shared list never exceeds max_results by
\* more than the matching lines of a single file.
C4_OvershootOneFile ==
    pc = "walk" => Len(results) <= limit + MaxFileMatches

\* C4, amended: the shared list stays empty when max_results is 0, and
\* otherwise never exceeds max_results - 1 plus one file's worth of matches per
\* worker (one worker: less than one file's worth over the cap).
C4_OvershootPerWorker ==
    pc = "walk" =>
        IF limit = 0 THEN results = <<>>
        ELSE Len(results) <= limit - 1 + Cardinality(Workers) * MaxFileMatches

\* C4's case: two workers passed the check together and the list now exceeds
\* the cap by more than any single file holds
C4_Witness ==
    /\ pc = "walk"
    /\ Cardinality(Workers) >= 2
    /\ Len(results) > limit + MaxFileMatches

\* C5, as claimed: a second run of the same call on the unchanged tree returns
\* the same set of lines as the first.
C5_SameLinesTwice ==
    run = 2 /\ pc = "done" => ReturnedLines(ret) = prev

\* C5, amended: the two runs return the same set of lines whenever the files
\* that can be scanned hold at most max_results matching lines in total.
C5_SameLinesWhenAllFit ==
    run = 2 /\ pc = "done" /\ TotalScannable <= max_results =>
        ReturnedLines(ret) = prev

\* C5's case: a second run in which two workers gathered the lines of two
\* files, the second file's first
C5_Witness ==
    /\ run = 2 /\ Returned
    /\ Cardinality(Workers) >= 2
    /\ TotalScannable <= max_results
    /\ Len(ret.items) >= 2
    /\ ret.items[1].relative_path = PathOf(2)
    /\ ReturnedLines(ret) = prev

\* C6: the pattern translated from "funk" matches text containing "func", and
\* fuzzy_grep_search("funk", "funk", 10) over the two-file tree returns both
\* a.rs's and b.toml's line.
C6_FunkFindsBothLines ==
    (FuzzyReturned /\ tree = ScenarioTree /\ grep_pattern = QueryFunk
        /\ fuzzy_query = QueryFunk /\ max_results = 10) =>
            /\ is_match(matcher, <<"f", "u", "n", "c">>)
            /\ \E i \in 1..Len(ret.items) : ret.items[i].line_content = LineFnFunctionOne
            /\ \E i \in 1..Len(ret.items) : ret.items[i].line_content = LineFunctionTrue

\* the characters the claims list as escaped
ClaimedMeta == {"\\", ".", "+", "*", "?", "(", ")", "|", "[", "]", "{", "}", "^", "$"}

\* p is q with one backslash before each listed character and every other
\* character copied unchanged
RECURSIVE IsEscapedLiteral(_, _)
IsEscapedLiteral(p, q) ==
    IF q = <<>> THEN p = <<>>
    ELSE IF Head(q) \in ClaimedMeta
    THEN Len(p) >= 2 /\ p[1] = "\\" /\ p[2] = Head(q)
            /\ IsEscapedLiteral(SubSeq(p, 3, Len(p)), Tail(q))
    ELSE Len(p) >= 1 /\ p[1] = Head(q) /\ IsEscapedLiteral(Tail(p), Tail(q))

\* C7: for every query of at most 2 characters (of any UTF-8 width, so also
\* when it is longer than 2 bytes) the translator returns exactly the escaped
\* literal query, with no alternation added.
C7_ShortQueryEscaped ==
    pc = "applied" /\ Len(arg) <= 2 => IsEscapedLiteral(out, arg)

\* C7's case: two characters, more than two bytes, one of them escaped
C7_Witness ==
    /\ pc = "applied"
    /\ arg = <<"U+00E9", "$">>
    /\ str_len(arg) > 2
    /\ out = <<"U+00E9", "\\", "$">>

ClaimedEscape(ch) == IF ch \in ClaimedMeta THEN <<"\\", ch>> ELSE <<ch>>

RECURSIVE ClaimedGroups(_)
ClaimedGroups(s) ==
    IF s = <<>> THEN <<>>
    ELSE <<"(">> \o ClaimedEscape(Head(s)) \o <<"|", ".", ")">> \o ClaimedGroups(Tail(s))

ClaimedTypos(L) ==
    IF L \div 4 < 2 THEN 2 ELSE IF L \div 4 > 6 THEN 6 ELSE L \div 4

\* C10: for every fuzzy_query length L >= 2, max_typos is floor(L / 4) clamped
\* to [2, 6], and a longer query never gets fewer typos than a shorter one.
C10_TyposClampedAndMonotone ==
    pc = "applied" =>
        /\ out[1] = ClaimedTypos(arg[1])
        /\ out[2] = ClaimedTypos(arg[2])
        /\ out[1] <= out[2]

====
